---- MODULE Spec2Model ----
(***************************************************************************)
(* A model of AsyncUtils (lexmihaylov/AsyncLoop): the cancellable polling  *)
(* Loop with its registry of unique loops, and the web-worker Thread with  *)
(* the threaded() wrapper.                                                 *)
(*                                                                         *)
(* The host is the browser's single-threaded event loop: every action is   *)
(* one task (a timer callback, a message event, a promise reaction, or a   *)
(* piece of top-level code calling the API) and runs to completion.        *)
(***************************************************************************)
EXTENDS Integers, Sequences, FiniteSets, TLC

(***************************************************************************)
(* Bounds of the model.                                                    *)
(***************************************************************************)
\* Loop instances made with new or Loop.until (they share no state).
MaxHeld == 1
\* Loop instances made with Loop.unique (they share the registry).
MaxLoops == 2
\* Handle invocations, over all Loops, after which the model fires no more timers.
MaxTicks == 3
\* Largest iterations argument handed to a Loop.
MaxIterations == 2

\* Thread instances that are ever constructed with new.
MaxThreads == 1
\* Workers that are ever created (by start).
MaxWorkers == 2
\* Promises that exec ever creates for the Threads constructed with new.
MaxPromises == 2
\* Calls of a function made by threaded.
MaxCalls == 2
\* Length of the sequences given to List.
MaxLen == 2
\* Operations of List (each, map, filter, find) that are ever called.
MaxLists == 1
\* Calls of If.
MaxIfs == 1
\* ForkPromiseProxy instances that are ever constructed (by If and by else).
MaxProxies == 3

(***************************************************************************)
(* JavaScript values.                                                      *)
(***************************************************************************)
\* null (this.job = null, iterations || null)
Null == -1
\* an omitted argument / the value of resolve()
Undefined == "<undefined>"

\* identifiers handed to Loop.unique
Ids == {"x", "y"}
\* message arguments of cancel / kill / terminate
Messages == {Undefined, "stop"}
\* type arguments of terminate
Types == {Undefined, "Halt"}
\* iterations arguments: 0 (as falsy as an omitted one) and 1 .. MaxIterations
Iterations == 0 .. MaxIterations

\* ToBoolean of a string or an omitted argument, and s || d
TruthyStr(s) == s \notin {Undefined, ""}
OrStr(s, d) == IF TruthyStr(s) THEN s ELSE d
\* ToBoolean of a number or null, and n || d
TruthyNum(n) == n \notin {Null, 0}
OrNum(n, d) == IF TruthyNum(n) THEN n ELSE d

(***************************************************************************)
(* The Promise primitive: settled at most once.                            *)
(***************************************************************************)
NewPromise == [state |-> "pending", value |-> Undefined]
resolve(p, v) == IF p.state = "pending" THEN [state |-> "fulfilled", value |-> v] ELSE p
reject(p, v) == IF p.state = "pending" THEN [state |-> "rejected", value |-> v] ELSE p

(***************************************************************************)
(* State of the Loop engine.                                               *)
(*   loops     the Loop instances constructed so far; the fields           *)
(*             maxIterations, job and promise are the object's, the rest   *)
(*             is history kept for the properties:                         *)
(*               via        how it was made: "new", "until", "unique"      *)
(*               id         the identifier of a unique loop                *)
(*               arg        the iterations argument it was made with       *)
(*               starts     start() calls so far                           *)
(*               calls      handle invocations so far                      *)
(*               nTimers    timers set for the loop so far                 *)
(*               truthyAt   the invocation that first returned truthy, 0   *)
(*               passive    the handle has only ever returned a value      *)
(*               threw      the handle has thrown                          *)
(*               settledAt  calls when the promise was settled, Null       *)
(*               settledBy  the call that settled the promise (see Call)   *)
(*               wasRunning a timer of the loop was pending at that call   *)
(*               by         the Loop that superseded it in the registry, 0 *)
(*   timers    the pending setTimeout callbacks: the Loop whose wait it    *)
(*             is, its id (timer ids are opaque: the model numbers the     *)
(*             timers of each Loop 1, 2, ...) and the value of the         *)
(*             closure's iteration                                         *)
(*   loopMap   the registry of Loop.unique: identifier -> Loop, 0 absent   *)
(***************************************************************************)
VARIABLES loops, timers, loopMap

loopVars == <<loops, timers, loopMap>>

(***************************************************************************)
(* State of the Threads.                                                   *)
(*   threads   the Thread instances: the fields url, worker, promise and   *)
(*             deferred (indices, or Null), and for the properties:        *)
(*               cls        the version of Thread it is an instance of     *)
(*               via        "new" or "threaded"                            *)
(*               starts, execs, terminates   calls of the methods so far   *)
(*               previous   the deferred the last exec replaced            *)
(*   workers   the Workers created: the Template's version, the object     *)
(*             URL it was created from, whether it is alive, the requests  *)
(*             posted to it and not yet handled (inbox), the responses it  *)
(*             posted that are not yet delivered (outbox), the Thread its  *)
(*             onmessage handler is bound to (0: no handler), and for the  *)
(*             properties the applications of the handle (applied); a      *)
(*             response names the request it answers (request)             *)
(*   urls      the object URLs created: how often each was revoked         *)
(*   promises  the promises made by exec and by threaded                   *)
(*   tcalls    the invocations of functions made by threaded: the Thread,  *)
(*             the promise of its exec, the promise returned (outer), the  *)
(*             arguments, and whether the then/catch reaction has run      *)
(***************************************************************************)
VARIABLES threads, workers, urls, promises, tcalls

threadVars == <<threads, workers, urls, promises, tcalls>>

(***************************************************************************)
(* State of the List operations.                                           *)
(*   lists     the calls of each, map, filter and find made so far: the    *)
(*             ListHandler's list, the variables of the closures (index,   *)
(*             newList, resolved), the Loop that each made, the promise    *)
(*             that map, filter or find returns (each returns the Loop's), *)
(*             whether the reaction to the Loop's promise has run, and for *)
(*             the properties:                                             *)
(*               op         the method called                              *)
(*               condition  the items the condition given holds of         *)
(*               visited    the (item, index) the handle or condition      *)
(*                          given was invoked with, in order               *)
(***************************************************************************)
VARIABLES lists

listVars == <<lists>>

(***************************************************************************)
(* State of the conditions (If).                                           *)
(*   proxies   the ForkPromiseProxy instances: the fields promise and next *)
(*             (indices of futures), thenHandle and elseHandle (a handle   *)
(*             is written as the value it returns), whether the reaction   *)
(*             the constructor puts on promise has run, and for the        *)
(*             properties:                                                 *)
(*               parent     the proxy whose else made it, 0 when If did    *)
(*               thenSet, elseSet  then(), else() has been called on it    *)
(*               ready      both had been called when the reaction ran     *)
(*               thenCalls, elseCalls  invocations of the handles          *)
(*               returned   what the invoked handle returned, or NoValue   *)
(*   futures   the promises of If and the next of each proxy               *)
(*   ifTimers  the pending setTimeout callbacks of If: the promise each    *)
(*             resolves and the value condition() returns                  *)
(***************************************************************************)
VARIABLES proxies, futures, ifTimers

ifVars == <<proxies, futures, ifTimers>>

vars == <<loopVars, threadVars, listVars, ifVars>>

\* The Loop state as one value, threaded through the methods below.
Heap == [loops |-> loops, timers |-> timers, loopMap |-> loopMap]

Commit(H) ==
    /\ loops' = H.loops
    /\ timers' = H.timers
    /\ loopMap' = H.loopMap
    /\ UNCHANGED <<threadVars, listVars, ifVars>>

(***************************************************************************)
(* History: who calls a method of a Loop, and with what.                   *)
(*   from  "outside"    code outside every handle, holding the instance    *)
(*         "handle"     the Loop's own handle, during its tick (this.x())  *)
(*         "wait"       the callback wait itself, after the handle returns *)
(*         "superseded" Loop.unique, called from outside the Loop's handle *)
(*   op, type, message  the method called and its arguments                *)
(***************************************************************************)
Call(from, op, type, message) ==
    [from |-> from, op |-> op, type |-> type, message |-> message]

NoCall == Call("", "", Undefined, Undefined)

\* the id the next setTimeout for Loop l returns
NextTimer(H, l) == H.loops[l].nTimers + 1

\* this.job = setTimeout(wait.bind(this)): a new pending timer, kept in job
setTimeout(H, l, iteration) ==
    [H EXCEPT !.timers = @ \cup {[loop |-> l, id |-> NextTimer(H, l), iteration |-> iteration]},
              !.loops[l].nTimers = @ + 1,
              !.loops[l].job = NextTimer(H, l)]

\* clearTimeout(id): a timer that has fired or was cleared is left alone
clearTimeout(H, l, id) == [H EXCEPT !.timers = {t \in @ : ~(t.loop = l /\ t.id = id)}]

HasTimer(H, l) == \E t \in H.timers : t.loop = l

\* new Loop(handle, iterations)
Loop(H, iterations, via, id) ==
    [H EXCEPT !.loops = Append(@,
        [maxIterations |-> OrNum(iterations, Null),
         job |-> Null,
         promise |-> NewPromise,
         via |-> via, id |-> id, arg |-> iterations, starts |-> 0, calls |-> 0, nTimers |-> 0,
         truthyAt |-> 0, passive |-> TRUE, threw |-> FALSE, settledAt |-> Null,
         settledBy |-> NoCall, wasRunning |-> FALSE, by |-> 0])]

\* History: when the method took the promise of l from pending to settled (H is the
\* state before the call, G the state after), G with the call c written down.
Settled(H, G, l, c) ==
    IF H.loops[l].promise.state = "pending" /\ G.loops[l].promise.state # "pending"
    THEN [G EXCEPT !.loops[l].settledAt = H.loops[l].calls,
                   !.loops[l].settledBy = c,
                   !.loops[l].wasRunning = HasTimer(H, l)]
    ELSE G

\* ClearJob without the clearTimeout
ClearJob_KeepTimer(H, l) == [H EXCEPT !.loops[l].job = Null]

\* if(this.job) { clearTimeout(this.job); this.job = null; }
ClearJob(H, l) ==
    IF TruthyNum(H.loops[l].job)
    THEN [clearTimeout(H, l, H.loops[l].job) EXCEPT !.loops[l].job = Null]
    ELSE H

\* Loop.prototype.start, up to the callback: schedules the first wait, iteration = 1
start(H, l) ==
    [setTimeout(H, l, 1) EXCEPT !.loops[l].starts = @ + 1]

\* Loop.prototype.done
done(H, l, c) ==
    Settled(H, [ClearJob(H, l) EXCEPT !.loops[l].promise = resolve(@, Undefined)], l, c)

\* '[' + type + '] ' + message, with the defaults of terminate
Reason(type, message) ==
    "[" \o OrStr(type, "Terminate") \o "] " \o OrStr(message, "Unknown reason")

\* Loop.prototype.terminate
terminate(H, l, type, message, c) ==
    Settled(H, [ClearJob(H, l) EXCEPT !.loops[l].promise = reject(@, Reason(type, message))], l, c)

\* Loop.prototype.cancel
cancel(H, l, message, c) == terminate(H, l, "Cancel", message, c)

\* Loop.prototype.kill
kill(H, l, message, c) == terminate(H, l, "Kill", message, c)

\* Loop.until: the new instance is Len(H.loops) + 1
until(H, iterations, via, id) ==
    start(Loop(H, iterations, via, id), Len(H.loops) + 1)

\* The message of the cancellation in Loop.unique. The source puts the identifier
\* between backquotes, which a string of this module cannot hold: they are
\* written as apostrophes.
Overriting(id) == "Overriting unique task '" \o id \o "' with a newer one."

\* unique that registers the new Loop before it cancels the registered one
unique_CancelNew(H, id, iterations, caller) ==
    LET new == Len(H.loops) + 1
        H1 == [until(H, iterations, "unique", id) EXCEPT !.loopMap[id] = new]
    IN cancel(H1, H1.loopMap[id], Overriting(id),
              Call("superseded", "cancel", Undefined, Overriting(id)))

\* Loop.unique(id).until: caller is the Loop whose handle makes the call, 0 for
\* a call from outside every handle.
unique(H, id, iterations, caller) ==
    LET old == H.loopMap[id]
        c == Call(IF old = caller THEN "handle" ELSE "superseded",
                  "cancel", Undefined, Overriting(id))
        H1 == IF old # 0
              THEN [cancel(H, old, Overriting(id), c)
                       EXCEPT !.loops[old].by = IF @ = 0 THEN Len(H.loops) + 1 ELSE @]
              ELSE H
        H2 == until(H1, iterations, "unique", id)
    IN [H2 EXCEPT !.loopMap[id] = Len(H.loops) + 1]

(***************************************************************************)
(* List: the ListHandler and its methods. The state is the Loop state with *)
(* the field lists.                                                        *)
(***************************************************************************)
\* the items of the sequences
Items == {1, 2}

\* list[index] for an index the list does not have: undefined
UndefinedItem == 0

\* the sequences given to List
Lists == UNION {[1 .. n -> Items] : n \in 0 .. MaxLen}

\* The conditions given to filter and find, each as the set of the items it
\* returns a truthy value for.
Conditions == SUBSET (Items \cup {UndefinedItem})

\* _this.list[index], index counted from 0
At(list, index) == IF index < Len(list) THEN list[index + 1] ELSE UndefinedItem

\* handle(item, index): the value the handle given to map returns
Mapped(item, index) == [handle |-> "map", item |-> item, index |-> index]

\* {item: item, index: index}
Found(item, index) == [item |-> item, index |-> index]

ListHeap == [loops |-> loops, timers |-> timers, loopMap |-> loopMap, lists |-> lists]

\* no List operation yet
ListInit == lists = <<>>

\* ListHandler.prototype.each, with the closures that map, filter and find (op)
\* build around it: Loop.until without iterations, index = 0, an empty newList,
\* resolved = false and a new promise. The Loop is Len(G.loops) + 1.
each(G, list, op, condition) ==
    [until(G, Null, "each", "") EXCEPT !.lists = Append(@,
        [op |-> op, list |-> list, condition |-> condition, loop |-> Len(G.loops) + 1,
         index |-> 0, newList |-> <<>>, resolved |-> FALSE, promise |-> NewPromise,
         reacted |-> FALSE, visited |-> <<>>])]

\* ListHandler.prototype.map
map(G, list) == each(G, list, "map", {})

\* ListHandler.prototype.filter
filter(G, list, condition) == each(G, list, "filter", condition)

\* ListHandler.prototype.find
find(G, list, condition) == each(G, list, "find", condition)

\* the List operation whose Loop is l
ListOf(G, l) == CHOOSE o \in 1 .. Len(G.lists) : G.lists[o].loop = l

\* The function each gives to Loop.until, invoked on the Loop of the operation
\* o, up to its return: the handle given is called with (list[index], index),
\* then index++. In map and filter newIndex is the length of newList. The
\* handle of find calls this.done() on the Loop once the condition holds.
Body(G, o) ==
    LET L == G.lists[o]
        item == At(L.list, L.index)
        G0 == [G EXCEPT !.lists[o].visited = Append(@, Found(item, L.index))]
        G1 == CASE L.op = "map" ->
                     [G0 EXCEPT !.lists[o].newList = Append(@, Mapped(item, L.index))]
                [] L.op = "filter" /\ item \in L.condition ->
                     [G0 EXCEPT !.lists[o].newList = Append(@, item)]
                [] L.op = "find" /\ item \in L.condition ->
                     done([G0 EXCEPT !.lists[o].resolved = TRUE,
                                     !.lists[o].promise = resolve(@, Found(item, L.index))],
                          L.loop, Call("handle", "done", Undefined, Undefined))
                [] OTHER -> G0
    IN [G1 EXCEPT !.lists[o].index = @ + 1]

\* return index > _this.list.length - 1, after the index++
BodyReturns(G, o) == G.lists[o].index + 1 > Len(G.lists[o].list) - 1

\* The reaction map, filter and find put on the promise of each with then, run
\* once when that promise is fulfilled: resolve(newList), or in find
\* reject(null) if(!resolved).
Then(G, o) ==
    LET L == G.lists[o]
    IN IF L.reacted \/ G.loops[L.loop].promise.state # "fulfilled" THEN G
       ELSE CASE L.op \in {"map", "filter"} ->
                   [G EXCEPT !.lists[o].reacted = TRUE,
                             !.lists[o].promise = resolve(@, L.newList)]
              [] L.op = "find" /\ ~L.resolved ->
                   [G EXCEPT !.lists[o].reacted = TRUE,
                             !.lists[o].promise = reject(@, Null)]
              [] OTHER -> [G EXCEPT !.lists[o].reacted = TRUE]

(***************************************************************************)
(* If and the ForkPromiseProxy. JavaScript values are written as their     *)
(* source text. The handles of the model return plain values (no proxy, no *)
(* promise) and do not throw.                                              *)
(***************************************************************************)
\* what condition() returns
ConditionResults == {"true", "false", "undefined"}

\* what the handles given to then and to else return
ThenResults == {"'A'", "true"}
ElseResults == {"'B'", "false"}

\* function() {}: the handle a proxy starts with returns undefined
EmptyHandle == "undefined"

\* no handle was invoked
NoValue == "<none>"

NewFuture == [state |-> "pending", value |-> "undefined"]

Forks == [proxies |-> proxies, futures |-> futures, ifTimers |-> ifTimers]

\* no condition yet
IfInit ==
    /\ proxies = <<>>
    /\ futures = <<>>
    /\ ifTimers = {}

\* new ForkPromiseProxy(promise): next is the promise of this.promise.then(...)
ForkPromiseProxy(F, promise, parent) ==
    [F EXCEPT !.futures = Append(@, NewFuture),
              !.proxies = Append(@,
                  [promise |-> promise, next |-> Len(F.futures) + 1,
                   thenHandle |-> EmptyHandle, elseHandle |-> EmptyHandle,
                   reacted |-> FALSE, parent |-> parent,
                   thenSet |-> FALSE, elseSet |-> FALSE, ready |-> FALSE,
                   thenCalls |-> 0, elseCalls |-> 0, returned |-> NoValue])]

\* If(condition): a promise that a timer resolves with condition(), in a proxy
If(F, result) ==
    LET promise == Len(F.futures) + 1
        F1 == [F EXCEPT !.futures = Append(@, NewFuture),
                        !.ifTimers = @ \cup {[promise |-> promise, result |-> result]}]
    IN ForkPromiseProxy(F1, promise, 0)

\* ForkPromiseProxy.prototype.then
then(F, x, handle) ==
    [F EXCEPT !.proxies[x].thenHandle = handle, !.proxies[x].thenSet = TRUE]

\* ForkPromiseProxy.prototype.else
else(F, x, handle) ==
    ForkPromiseProxy([F EXCEPT !.proxies[x].elseHandle = handle,
                               !.proxies[x].elseSet = TRUE],
                     F.proxies[x].next, x)

\* the reaction with the two branches exchanged
Reaction_Exchanged(F, x) ==
    LET X == F.proxies[x]
        result == F.futures[X.promise].value
        F0 == [F EXCEPT !.proxies[x].reacted = TRUE,
                        !.proxies[x].ready = X.thenSet /\ X.elseSet]
    IN IF result = "false"
       THEN [F0 EXCEPT !.proxies[x].thenCalls = @ + 1,
                       !.proxies[x].returned = X.thenHandle,
                       !.futures[X.next] = resolve(@, X.thenHandle)]
       ELSE IF result = "true"
       THEN [F0 EXCEPT !.proxies[x].elseCalls = @ + 1,
                       !.proxies[x].returned = X.elseHandle,
                       !.futures[X.next] = resolve(@, X.elseHandle)]
       ELSE [F0 EXCEPT !.futures[X.next] = resolve(@, "null")]

\* The reaction of the constructor, run when the promise of proxy x is
\* fulfilled: this.resolve('then') for true, this.resolve('else') for false,
\* null for every other result; what it returns fulfils next.
Reaction(F, x) ==
    LET X == F.proxies[x]
        result == F.futures[X.promise].value
        F0 == [F EXCEPT !.proxies[x].reacted = TRUE,
                        !.proxies[x].ready = X.thenSet /\ X.elseSet]
    IN IF result = "true"
       THEN [F0 EXCEPT !.proxies[x].thenCalls = @ + 1,
                       !.proxies[x].returned = X.thenHandle,
                       !.futures[X.next] = resolve(@, X.thenHandle)]
       ELSE IF result = "false"
       THEN [F0 EXCEPT !.proxies[x].elseCalls = @ + 1,
                       !.proxies[x].returned = X.elseHandle,
                       !.futures[X.next] = resolve(@, X.elseHandle)]
       ELSE [F0 EXCEPT !.futures[X.next] = resolve(@, "null")]

\* The promise jobs that follow a task: the reactions of the proxies whose
\* promise is fulfilled, the first n proxies here. A proxy is made after the
\* proxy whose next it wraps, so one pass in this order runs them all.
RECURSIVE IfJobs(_, _)
IfJobs(F, n) ==
    IF n = 0 THEN F
    ELSE LET F1 == IfJobs(F, n - 1)
         IN IF ~F1.proxies[n].reacted /\ F1.futures[F1.proxies[n].promise].state = "fulfilled"
            THEN Reaction(F1, n)
            ELSE F1

(***************************************************************************)
(* What a handle does when it is invoked: it may call a method of the Loop *)
(* it is bound to (this.done(), this.cancel(message), ...), start a unique *)
(* loop, or throw; otherwise it returns a truthy or a falsy value.         *)
(***************************************************************************)
Behaviour(act, type, message, id, iterations) ==
    [act |-> act, type |-> type, message |-> message, id |-> id, iterations |-> iterations]

Behaviours ==
    {Behaviour(a, Undefined, Undefined, "", Null) : a \in {"return", "throw", "done"}}
    \cup {Behaviour("cancel", Undefined, m, "", Null) : m \in Messages}

\* ... and, in the specification of the registry, Loop.unique(id).until(h, n)
UniqueBehaviours ==
    Behaviours
    \cup {Behaviour("unique", Undefined, Undefined, id, n) : id \in Ids, n \in Iterations}

\* this.handle.call(this): the calls the handle makes on Loop l before it returns
handle(H, l, b) ==
    CASE b.act = "done" -> done(H, l, Call("handle", "done", Undefined, Undefined))
      [] b.act = "cancel" -> cancel(H, l, b.message, Call("handle", "cancel", Undefined, b.message))
      [] b.act = "unique" -> unique(H, b.id, b.iterations, l)
      [] b.act = "each" -> Body(H, ListOf(H, l))
      [] OTHER -> H

\* Timer t fires and wait calls the handle, which behaves as b and, unless it
\* throws, returns ret: the state when the handle is back.
Invoke(H, t, b, ret) ==
    LET l == t.loop
        H0 == [H EXCEPT !.timers = @ \ {t},
                        !.loops[l].calls = @ + 1,
                        !.loops[l].passive = @ /\ b.act = "return",
                        !.loops[l].threw = @ \/ b.act = "throw",
                        !.loops[l].truthyAt =
                            IF @ = 0 /\ ret /\ b.act # "throw"
                            THEN H.loops[l].calls + 1 ELSE @]
    IN handle(H0, l, b)

\* !!this.maxIterations && iteration === this.maxIterations
MaxReached_Late(H, l, iteration) ==
    /\ TruthyNum(H.loops[l].maxIterations)
    /\ iteration = H.loops[l].maxIterations + 1

MaxReached(H, l, iteration) ==
    /\ TruthyNum(H.loops[l].maxIterations)
    /\ iteration = H.loops[l].maxIterations

\* the rest of wait with the next tick scheduled twice
Continue_ScheduleTwice(H, l, iteration) ==
    IF MaxReached(H, l, iteration)
    THEN kill(H, l, "maximum iterations reached.",
              Call("wait", "kill", Undefined, "maximum iterations reached."))
    ELSE setTimeout(setTimeout(H, l, iteration + 1), l, iteration + 1)

\* the rest of wait when the handle returned a falsy value
Continue(H, l, iteration) ==
    IF MaxReached(H, l, iteration)
    THEN kill(H, l, "maximum iterations reached.",
              Call("wait", "kill", Undefined, "maximum iterations reached."))
    ELSE setTimeout(H, l, iteration + 1)

\* wait without the return after this.done()
wait_NoReturn(H, t, b, ret) ==
    LET H1 == Invoke(H, t, b, ret)
    IN IF b.act = "throw" THEN H1
       ELSE IF ret
            THEN Continue(done(H1, t.loop, Call("wait", "done", Undefined, Undefined)),
                          t.loop, t.iteration)
       ELSE Continue(H1, t.loop, t.iteration)

\* wait with a handle's failure caught and taken for a falsy return
wait_CatchThrow(H, t, b, ret) ==
    LET H1 == Invoke(H, t, b, ret)
    IN IF b.act # "throw" /\ ret
       THEN done(H1, t.loop, Call("wait", "done", Undefined, Undefined))
       ELSE Continue(H1, t.loop, t.iteration)

\* The callback wait of Loop.prototype.start, run when timer t fires. A handle
\* that throws ends the callback there.
wait(H, t, b, ret) ==
    LET H1 == Invoke(H, t, b, ret)
    IN IF b.act = "throw" THEN H1
       ELSE IF ret THEN done(H1, t.loop, Call("wait", "done", Undefined, Undefined))
       ELSE Continue(H1, t.loop, t.iteration)

(***************************************************************************)
(* The Thread. The repository holds two versions of it: the one of         *)
(* AsyncUtils.js, which threaded() uses, and the one of the file           *)
(* unnamed/part_000. cls tells which one an instance is of.                *)
(***************************************************************************)
Classes == {"AsyncUtils", "part_000"}

\* Values that cross the worker boundary or settle a Thread's promise:
\*   "undefined"  undefined
\*   "string"     a string, in message
\*   "return"     what the handle returns for the arguments args
\*   "Error"      the failure the handle throws for the arguments args
\*   "object"     a plain object {message, stack}
Value(kind, args, message, stack) ==
    [kind |-> kind, args |-> args, message |-> message, stack |-> stack]

UndefinedValue == Value("undefined", <<>>, "", "")
Terminated == Value("string", <<>>, "Terminated", "")
Returned(args) == Value("return", args, "", "")
Thrown(args) == Value("Error", args, "boom", "Error: boom at handle")

\* { message: ex.message, stack: ex.stack }
Description(ex) == Value("object", ex.args, ex.message, ex.stack)

\* An argument list, or undefined (an omitted params, a missing property).
Array(items) == [defined |-> TRUE, items |-> items]
UndefinedParams == [defined |-> FALSE, items |-> <<>>]

\* the argument lists of the model
ArgLists == {<<>>, <<1>>}
\* what exec is called with: nothing, or one argument
Params == {UndefinedParams, Array(<<1>>)}

\* params || []  (an array, even an empty one, is truthy)
OrParams(params) == IF params.defined THEN params ELSE Array(<<>>)

\* new Promise(...) in exec and in threaded
NewThreadPromise == [state |-> "pending", value |-> UndefinedValue]

\* no Thread yet
ThreadInit ==
    /\ threads = <<>>
    /\ workers = <<>>
    /\ urls = <<>>
    /\ promises = <<>>
    /\ tcalls = <<>>

\* The Thread state as one value, threaded through the methods below. error tells
\* that the method has thrown (a TypeError on null): the statements after the
\* throw are not run.
Store ==
    [threads |-> threads, workers |-> workers, urls |-> urls, promises |-> promises,
     tcalls |-> tcalls, error |-> FALSE]

CommitThreads(T) ==
    /\ threads' = T.threads
    /\ workers' = T.workers
    /\ urls' = T.urls
    /\ promises' = T.promises
    /\ tcalls' = T.tcalls
    /\ UNCHANGED <<loopVars, listVars, ifVars>>

Throw(T) == [T EXCEPT !.error = TRUE]

\* new Thread(handle)
Thread(T, cls, via) ==
    [T EXCEPT !.threads = Append(@,
        [cls |-> cls, url |-> Null, worker |-> Null, promise |-> Null, deferred |-> Null,
         via |-> via, starts |-> 0, execs |-> 0, terminates |-> 0, previous |-> Null])]

\* terminate without the rejection of the pending promise
threadTerminate_NoReject(T, t) ==
    LET th == T.threads[t]
        T0 == [T EXCEPT !.threads[t].terminates = @ + 1]
    IN IF th.worker = Null THEN Throw(T0)
       ELSE [T0 EXCEPT !.workers[th.worker].alive = FALSE,
                       !.workers[th.worker].inbox = <<>>,
                       !.workers[th.worker].outbox = <<>>,
                       !.urls[th.url].revoked = @ + 1,
                       !.threads[t].worker = Null,
                       !.threads[t].url = Null]

\* Thread.prototype.terminate. worker.terminate() discards the worker's pending
\* requests and its undelivered responses. this.worker and this.deferred are
\* dereferenced unguarded: on null the method throws there.
threadTerminate(T, t) ==
    LET th == T.threads[t]
        T0 == [T EXCEPT !.threads[t].terminates = @ + 1]
    IN IF th.worker = Null THEN Throw(T0)
       ELSE LET T1 == [T0 EXCEPT !.workers[th.worker].alive = FALSE,
                                 !.workers[th.worker].inbox = <<>>,
                                 !.workers[th.worker].outbox = <<>>,
                                 !.urls[th.url].revoked = @ + 1,
                                 !.threads[t].worker = Null,
                                 !.threads[t].url = Null]
            IN IF th.deferred = Null THEN Throw(T1)
               ELSE [T1 EXCEPT !.promises[th.deferred] = reject(@, Terminated)]

\* Thread.prototype.start
threadStart(T, t) ==
    LET T0 == [T EXCEPT !.threads[t].starts = @ + 1]
        T1 == IF T0.threads[t].worker # Null THEN threadTerminate(T0, t) ELSE T0
    IN IF T1.error THEN T1
       ELSE [T1 EXCEPT !.urls = Append(@, [revoked |-> 0]),
                       !.workers = Append(@,
                           [cls |-> T1.threads[t].cls, url |-> Len(T1.urls) + 1,
                            alive |-> TRUE, inbox |-> <<>>, outbox |-> <<>>,
                            onmessage |-> 0, applied |-> <<>>]),
                       !.threads[t].url = Len(T1.urls) + 1,
                       !.threads[t].worker = Len(T1.workers) + 1]

\* the data of the request: params in AsyncUtils.js, this.params (a property no
\* Thread has) in part_000
RequestData(cls, params) ==
    IF cls = "AsyncUtils" THEN OrParams(params) ELSE UndefinedParams

\* Thread.prototype.exec: call is the params argument as the caller gave it
exec(T, t, params) ==
    LET th == T.threads[t]
        p == Len(T.promises) + 1
        T1 == [T EXCEPT !.promises = Append(@, NewThreadPromise),
                        !.threads[t].promise = p,
                        !.threads[t].deferred = p,
                        !.threads[t].previous = th.deferred,
                        !.threads[t].execs = @ + 1]
    IN IF th.worker = Null THEN Throw(T1)
       ELSE [T1 EXCEPT !.workers[th.worker].inbox =
                           Append(@, [type |-> "exec",
                                      data |-> RequestData(th.cls, params),
                                      call |-> params]),
                       !.workers[th.worker].onmessage = t]

\* The error response of the Template: a description of the failure in
\* AsyncUtils.js, the failure itself in part_000.
ErrorData(cls, ex) == IF cls = "AsyncUtils" THEN Description(ex) ELSE ex

\* self.onmessage of the Template, on the oldest request: the handle, applied to
\* msg.data (to no arguments when that is undefined), returns or throws. In
\* part_000 the Error itself is posted: either the structured clone carries it
\* over (clones) or postMessage throws inside the catch and nothing is posted.
Template(T, w, throws, clones) ==
    LET W == T.workers[w]
        msg == Head(W.inbox)
        args == IF msg.data.defined THEN msg.data.items ELSE <<>>
        n == Len(W.applied) + 1
        out == IF ~throws
               THEN <<[type |-> "result", data |-> Returned(args), request |-> n]>>
               ELSE IF W.cls = "AsyncUtils" \/ clones
               THEN <<[type |-> "error", data |-> ErrorData(W.cls, Thrown(args)),
                       request |-> n]>>
               ELSE <<>>
    IN [T EXCEPT !.workers[w].inbox = Tail(@),
                 !.workers[w].outbox = @ \o out,
                 !.workers[w].applied = Append(@, [args |-> args, call |-> msg.call])]

\* this.worker.onmessage of exec, on the oldest undelivered response: it settles
\* the deferred the Thread holds when the message arrives
onmessage(T, w) ==
    LET W == T.workers[w]
        msg == Head(W.outbox)
        T1 == [T EXCEPT !.workers[w].outbox = Tail(@)]
        d == IF W.onmessage = 0 THEN Null ELSE T.threads[W.onmessage].deferred
    IN IF d = Null THEN T1
       ELSE IF msg.type = "result"
       THEN [T1 EXCEPT !.promises[d] = resolve(@, msg.data)]
       ELSE [T1 EXCEPT !.promises[d] = reject(@, msg.data)]

\* The function threaded returns, called with args: up to the registration of the
\* reactions. The new Thread is Len(T.threads) + 1.
threaded(T, args) ==
    LET t == Len(T.threads) + 1
        T1 == exec(threadStart(Thread(T, "AsyncUtils", "threaded"), t), t, Array(args))
    IN [T1 EXCEPT !.promises = Append(@, NewThreadPromise),
                  !.tcalls = Append(@,
                      [thread |-> t, exec |-> T1.threads[t].promise,
                       outer |-> Len(T1.promises) + 1, args |-> args, reacted |-> FALSE])]

\* the catch reaction of threaded: reject(ex); thread.terminate()
Catch(T, c, ex) ==
    threadTerminate([T EXCEPT !.promises[T.tcalls[c].outer] = reject(@, ex),
                              !.error = FALSE],
                    T.tcalls[c].thread)

\* threaded whose failure path leaves the Thread alone
React_NoTerminateOnFailure(T, c) ==
    LET C == T.tcalls[c]
        p == T.promises[C.exec]
        T0 == [T EXCEPT !.tcalls[c].reacted = TRUE]
    IN IF p.state = "fulfilled"
       THEN threadTerminate([T0 EXCEPT !.promises[C.outer] = resolve(@, p.value)], C.thread)
       ELSE [T0 EXCEPT !.promises[C.outer] = reject(@, p.value)]

\* The reactions threaded registered on the promise of exec, run once it is
\* settled: then (resolve(result); thread.terminate()), and catch for a rejection
\* or for a then that threw.
React(T, c) ==
    LET C == T.tcalls[c]
        p == T.promises[C.exec]
        T0 == [T EXCEPT !.tcalls[c].reacted = TRUE]
    IN IF p.state = "fulfilled"
       THEN LET T1 == threadTerminate(
                          [T0 EXCEPT !.promises[C.outer] = resolve(@, p.value)], C.thread)
            IN IF T1.error THEN Catch(T1, c, Value("Error", <<>>, "TypeError", "")) ELSE T1
       ELSE Catch(T0, c, p.value)

\* The promise jobs that follow a task: the reactions of every invocation of
\* threaded whose exec promise is settled, the first n invocations here.
RECURSIVE Reactions(_, _)
Reactions(T, n) ==
    IF n = 0 THEN T
    ELSE LET T1 == Reactions(T, n - 1)
         IN IF ~T1.tcalls[n].reacted /\ T1.promises[T1.tcalls[n].exec].state # "pending"
            THEN [React(T1, n) EXCEPT !.error = FALSE]
            ELSE T1

\* a task ends: its promise jobs run, the state is the new state
EndTask(T) == CommitThreads(Reactions(T, Len(T.tcalls)))

(***************************************************************************)
(* Actions of the Loop engine.                                             *)
(***************************************************************************)
\* handle invocations so far, over the first n Loops
RECURSIVE Calls(_)
Calls(n) == IF n = 0 THEN 0 ELSE loops[n].calls + Calls(n - 1)

\* one more Loop fits in the bound
Room == Len(loops) < MaxLoops
RoomHeld == Len(loops) < MaxHeld

\* Instances made with new are the ones outside code holds a reference to.
Held == {l \in 1 .. Len(loops) : loops[l].via = "new"}

CallNew(iterations) ==
    /\ RoomHeld
    /\ Commit(Loop(Heap, iterations, "new", ""))

CallStart(l) ==
    /\ loops[l].starts = 0
    /\ Commit(start(Heap, l))

CallDone(l) ==
    /\ Commit(done(Heap, l, Call("outside", "done", Undefined, Undefined)))

CallTerminate(l, type, message) ==
    /\ Commit(terminate(Heap, l, type, message, Call("outside", "terminate", type, message)))

CallCancel(l, message) ==
    /\ Commit(cancel(Heap, l, message, Call("outside", "cancel", Undefined, message)))

CallKill(l, message) ==
    /\ Commit(kill(Heap, l, message, Call("outside", "kill", Undefined, message)))

CallUntil(iterations) ==
    /\ RoomHeld
    /\ Commit(until(Heap, iterations, "until", ""))

CallUnique(id, iterations) ==
    /\ Room
    /\ Commit(unique(Heap, id, iterations, 0))

Tick(t, B) ==
    /\ Calls(Len(loops)) < MaxTicks
    /\ \E b \in B, ret \in BOOLEAN :
          /\ b.act = "unique" => Room
          /\ Commit(wait(Heap, t, b, ret))

LoopInit ==
    /\ loops = <<>>
    /\ timers = {}
    /\ loopMap = [id \in Ids |-> 0]

\* Loops made with new and with Loop.until, driven from outside and by their timers.
Init == LoopInit /\ ThreadInit /\ ListInit /\ IfInit

LoopNext ==
    \/ \E n \in Iterations : CallNew(n)
    \/ \E l \in Held : CallStart(l)
    \/ \E l \in Held : CallDone(l)
    \/ \E l \in Held, ty \in Types, m \in Messages : CallTerminate(l, ty, m)
    \/ \E l \in Held, m \in Messages : CallCancel(l, m)
    \/ \E l \in Held, m \in Messages : CallKill(l, m)
    \/ \E n \in Iterations : CallUntil(n)
    \/ \E t \in timers : Tick(t, Behaviours)

LoopSpec == Init /\ [][LoopNext]_vars

\* Loops made with Loop.unique, from outside and from inside the handles.
UniqueNext ==
    \/ \E id \in Ids, n \in Iterations : CallUnique(id, n)
    \/ \E t \in timers : Tick(t, UniqueBehaviours)

UniqueSpec == Init /\ [][UniqueNext]_vars

(***************************************************************************)
(* Actions of the List operations.                                         *)
(***************************************************************************)
CommitLists(G) ==
    /\ loops' = G.loops
    /\ timers' = G.timers
    /\ loopMap' = G.loopMap
    /\ lists' = G.lists
    /\ UNCHANGED <<threadVars, ifVars>>

CallEach(list) ==
    /\ Len(lists) < MaxLists
    /\ CommitLists(each(ListHeap, list, "each", {}))

CallMap(list) ==
    /\ Len(lists) < MaxLists
    /\ CommitLists(map(ListHeap, list))

CallFilter(list, condition) ==
    /\ Len(lists) < MaxLists
    /\ CommitLists(filter(ListHeap, list, condition))

CallFind(list, condition) ==
    /\ Len(lists) < MaxLists
    /\ CommitLists(find(ListHeap, list, condition))

\* the behaviour of the function each gives to Loop.until
EachBehaviour == Behaviour("each", Undefined, Undefined, "", Null)

\* A timer of the Loop of a List operation fires: wait, then the promise jobs.
ListTick(t) ==
    LET o == ListOf(ListHeap, t.loop)
    IN CommitLists(Then(wait(ListHeap, t, EachBehaviour, BodyReturns(ListHeap, o)), o))

ListNext ==
    \/ \E list \in Lists : CallEach(list)
    \/ \E list \in Lists : CallMap(list)
    \/ \E list \in Lists, condition \in Conditions : CallFilter(list, condition)
    \/ \E list \in Lists, condition \in Conditions : CallFind(list, condition)
    \/ \E t \in timers : ListTick(t)

ListSpec == Init /\ [][ListNext]_vars

(***************************************************************************)
(* A Loop made with new and a List operation side by side: their ticks are *)
(* tasks of one scheduler.                                                 *)
(***************************************************************************)
\* the sequences given to List here: n items, all the same
Sequences == {[i \in 1 .. n |-> 1] : n \in 0 .. MaxLen}

\* the condition given to filter and find here: item === 1
IsOne == {1}

\* a handle that calls nothing and returns ret
Returns == Behaviour("return", Undefined, Undefined, "", Null)

\* A timer of a Loop made with new fires.
PlainTick(t) ==
    /\ loops[t.loop].via = "new"
    /\ \E ret \in BOOLEAN : Commit(wait(Heap, t, Returns, ret))

\* A timer of the Loop of a List operation fires.
SequenceTick(t) ==
    /\ loops[t.loop].via = "each"
    /\ ListTick(t)

SequenceNext ==
    \/ CallNew(MaxIterations)
    \/ \E l \in Held : CallStart(l)
    \/ \E list \in Sequences : CallEach(list)
    \/ \E list \in Sequences : CallMap(list)
    \/ \E list \in Sequences : CallFilter(list, IsOne)
    \/ \E list \in Sequences : CallFind(list, IsOne)
    \/ \E t \in timers : PlainTick(t)
    \/ \E t \in timers : SequenceTick(t)

SequenceSpec == Init /\ [][SequenceNext]_vars

(***************************************************************************)
(* Actions of the conditions.                                              *)
(***************************************************************************)
\* a task ends: its promise jobs run, the state is the new state
CommitForks(F) ==
    LET F1 == IfJobs(F, Len(F.proxies))
    IN /\ proxies' = F1.proxies
       /\ futures' = F1.futures
       /\ ifTimers' = F1.ifTimers
       /\ UNCHANGED <<loopVars, threadVars, listVars>>

CallIf(result) ==
    /\ Cardinality({x \in 1 .. Len(proxies) : proxies[x].parent = 0}) < MaxIfs
    /\ Len(proxies) < MaxProxies
    /\ CommitForks(If(Forks, result))

CallThen(x, h) ==
    /\ CommitForks(then(Forks, x, h))

CallElse(x, h) ==
    /\ Len(proxies) < MaxProxies
    /\ CommitForks(else(Forks, x, h))

\* the timer of an If fires: resolve(condition())
IfTimer(t) ==
    /\ CommitForks([Forks EXCEPT !.ifTimers = @ \ {t},
                                 !.futures[t.promise] = resolve(@, t.result)])

IfNext ==
    \/ \E result \in ConditionResults : CallIf(result)
    \/ \E x \in 1 .. Len(proxies), h \in ThenResults : CallThen(x, h)
    \/ \E x \in 1 .. Len(proxies), h \in ElseResults : CallElse(x, h)
    \/ \E t \in ifTimers : IfTimer(t)

IfSpec == Init /\ [][IfNext]_vars

(***************************************************************************)
(* Actions of the Threads.                                                 *)
(***************************************************************************)
\* Threads made with new are the ones outside code holds a reference to.
HeldThreads == {t \in 1 .. Len(threads) : threads[t].via = "new"}

CallThread(cls) ==
    /\ Len(threads) < MaxThreads
    /\ EndTask(Thread(Store, cls, "new"))

CallThreadStart(t) ==
    /\ Len(workers) < MaxWorkers
    /\ EndTask(threadStart(Store, t))

CallExec(t, params) ==
    /\ Len(promises) < MaxPromises
    /\ EndTask(exec(Store, t, params))

\* terminate() on a Thread without a worker throws at its first statement and
\* changes nothing: the model leaves that call out.
CallThreadTerminate(t) ==
    /\ threads[t].worker # Null
    /\ EndTask(threadTerminate(Store, t))

CallThreaded(args) ==
    /\ Len(tcalls) < MaxCalls
    /\ EndTask(threaded(Store, args))

\* a worker handles its oldest request
WorkerRun(w) ==
    /\ workers[w].alive
    /\ workers[w].inbox # <<>>
    /\ \E throws \in BOOLEAN, clones \in BOOLEAN :
          EndTask(Template(Store, w, throws, clones))

\* the oldest response of a worker is delivered to the page
Deliver(w) ==
    /\ workers[w].alive
    /\ workers[w].outbox # <<>>
    /\ EndTask(onmessage(Store, w))

ThreadNext ==
    \/ \E cls \in Classes : CallThread(cls)
    \/ \E t \in HeldThreads : CallThreadStart(t)
    \/ \E t \in HeldThreads, params \in Params : CallExec(t, params)
    \/ \E t \in HeldThreads : CallThreadTerminate(t)
    \/ \E w \in 1 .. Len(workers) : WorkerRun(w)
    \/ \E w \in 1 .. Len(workers) : Deliver(w)

ThreadSpec == Init /\ [][ThreadNext]_vars

\* the calls of functions made by threaded: no other code holds their Threads
ThreadedNext ==
    \/ \E args \in ArgLists : CallThreaded(args)
    \/ \E w \in 1 .. Len(workers) : WorkerRun(w)
    \/ \E w \in 1 .. Len(workers) : Deliver(w)

ThreadedSpec == Init /\ [][ThreadedNext]_vars

(***************************************************************************)
(* Properties of the Loop engine.                                          *)
(***************************************************************************)
LoopIds == 1 .. Len(loops)

Fulfilled(v) == [state |-> "fulfilled", value |-> v]
Rejected(v) == [state |-> "rejected", value |-> v]

\* C1: for every positive integer n and a handle that only ever returns falsy
\* values, the promise of Loop.until(handle, n) is pending with a tick scheduled
\* while the handle has been invoked fewer than n times, it is rejected with
\* "[Kill] maximum iterations reached." once the handle has been invoked n times,
\* and the handle is never invoked an (n+1)-th time.
C1_KillAfterN ==
    \A l \in LoopIds :
        LET L == loops[l]
        IN (L.via = "until" /\ L.arg >= 1 /\ L.passive /\ L.truthyAt = 0) =>
              /\ L.calls <= L.arg
              /\ L.calls < L.arg => (L.promise.state = "pending" /\ HasTimer(Heap, l))
              /\ L.calls = L.arg =>
                    /\ L.promise = Rejected("[Kill] maximum iterations reached.")
                    /\ ~HasTimer(Heap, l)

\* C1's case: a Loop.until with the largest cap, killed after that many falsy returns
C1_Witness ==
    \E l \in LoopIds :
        /\ loops[l].via = "until" /\ loops[l].arg = MaxIterations
        /\ loops[l].passive /\ loops[l].truthyAt = 0
        /\ loops[l].calls = MaxIterations
        /\ loops[l].promise = Rejected("[Kill] maximum iterations reached.")

\* C2: when the handle (which does nothing but return a value) first returns a
\* truthy value on its k-th invocation, and the Loop was not terminated from
\* outside before that, the promise is fulfilled after exactly k invocations, no
\* tick is scheduled any more (there is no (k+1)-th invocation), and k is at most
\* the cap when there is one.
C2_FulfilAtK ==
    \A l \in LoopIds :
        LET L == loops[l]
        IN (L.passive /\ L.truthyAt > 0
              /\ L.settledBy.from \notin {"outside", "superseded"}) =>
              /\ L.calls = L.truthyAt
              /\ L.promise = Fulfilled(Undefined)
              /\ L.settledAt = L.truthyAt
              /\ ~HasTimer(Heap, l)
              /\ L.maxIterations # Null => L.truthyAt <= L.maxIterations

\* C2's case: the first truthy return comes on the invocation that is also the cap
C2_Witness ==
    \E l \in LoopIds :
        /\ loops[l].passive /\ loops[l].maxIterations = MaxIterations
        /\ loops[l].truthyAt = MaxIterations /\ loops[l].calls = MaxIterations
        /\ loops[l].promise = Fulfilled(Undefined)

\* a newer Loop has been started under the identifier of unique Loop l
Replaced(l) == \E k \in LoopIds : k > l /\ loops[k].id = loops[l].id

\* Loop k goes its own way: as long as nothing but its own timer acts on it and
\* its handle only returns values, it is fulfilled at the first truthy return,
\* killed at its cap, and ticking otherwise.
OwnWay(k) ==
    LET L == loops[k]
    IN (L.passive /\ L.settledBy.from \notin {"outside", "superseded"}) =>
          IF L.truthyAt > 0
          THEN L.promise = Fulfilled(Undefined) /\ L.calls = L.truthyAt
          ELSE IF L.maxIterations # Null /\ L.calls = L.maxIterations
          THEN L.promise = Rejected("[Kill] maximum iterations reached.")
          ELSE L.promise.state = "pending" /\ HasTimer(Heap, k)

Kind(c) ==
    CASE c.op = "cancel" -> "Cancel"
      [] c.op = "kill" -> "Kill"
      [] OTHER -> IF c.type = Undefined THEN "Terminate" ELSE c.type

Message(c) == IF c.message = Undefined THEN "Unknown reason" ELSE c.message

\* C4: when cancel, kill or terminate is called from outside the handle on a
\* started, unsettled Loop whose next tick is pending, no tick of the Loop is
\* pending after the call, the handle is never invoked again, and the promise is
\* rejected with "[<Kind>] <message>": Cancel, Kill, or the type given to
\* terminate (Terminate when omitted), and "Unknown reason" for an omitted message.
C4_TerminateRunning ==
    \A l \in LoopIds :
        LET L == loops[l]
            c == L.settledBy
        IN (c.from = "outside" /\ c.op \in {"cancel", "kill", "terminate"} /\ L.wasRunning) =>
              /\ ~HasTimer(Heap, l)
              /\ L.calls = L.settledAt
              /\ L.promise = Rejected("[" \o Kind(c) \o "] " \o Message(c))

\* C4's case: terminate() without arguments between the first and the second tick
C4_Witness ==
    \E l \in LoopIds :
        /\ loops[l].settledBy = Call("outside", "terminate", Undefined, Undefined)
        /\ loops[l].wasRunning /\ loops[l].calls = 1
        /\ loops[l].promise = Rejected("[Terminate] Unknown reason")

\* a step that is a call of done, cancel, kill or terminate from outside: no Loop
\* is constructed or started and no handle is invoked
MethodCall ==
    /\ Len(loops') = Len(loops)
    /\ \A l \in LoopIds : loops'[l].calls = loops[l].calls /\ loops'[l].starts = loops[l].starts

TimersOf(ts, l) == {t \in ts : t.loop = l}

\* C5: the outcome of a Loop's promise is fixed by the first of done, cancel, kill
\* and terminate to be called: a later call of any of them leaves the promise as
\* it is and has no other observable effect (the ticks scheduled for the Loop stay
\* as they are).
C5_LaterCallsNoEffect ==
    [][MethodCall =>
          \A l \in LoopIds :
              loops[l].promise.state # "pending" =>
                  /\ loops'[l].promise = loops[l].promise
                  /\ TimersOf(timers', l) = TimersOf(timers, l)]_vars


(***************************************************************************)
(* Properties of the Threads.                                              *)
(***************************************************************************)
ThreadIds == 1 .. Len(threads)

\* a step in which terminate() is called on the Thread t, not from start()
TerminateCall(t) ==
    /\ threads'[t].terminates = threads[t].terminates + 1
    /\ threads'[t].starts = threads[t].starts

\* a step in which start() is called on the Thread t
StartCall(t) == threads'[t].starts = threads[t].starts + 1

\* a step in which exec() is called on the Thread t
ExecCall(t) == threads'[t].execs = threads[t].execs + 1

\* the Thread t has a worker and a promise of exec that is still pending
InFlight(t) ==
    /\ threads[t].worker # Null
    /\ threads[t].deferred # Null
    /\ promises[threads[t].deferred].state = "pending"

RejectedTerminated == [state |-> "rejected", value |-> Terminated]

\* C6: terminate() on a started Thread whose exec has had no response yet
\* terminates the worker, releases its object URL once, leaves worker and url
\* null and rejects the promise of that exec with the string "Terminated"; a
\* promise so rejected is never settled otherwise afterwards.
C6_TerminateInFlight ==
    /\ [][\A t \in ThreadIds :
            TerminateCall(t) /\ InFlight(t) =>
                /\ promises'[threads[t].deferred] = RejectedTerminated
                /\ ~workers'[threads[t].worker].alive
                /\ urls[threads[t].url].revoked = 0
                /\ urls'[threads[t].url].revoked = 1
                /\ threads'[t].worker = Null
                /\ threads'[t].url = Null]_vars
    /\ [][\A p \in 1 .. Len(promises) :
            promises[p] = RejectedTerminated => promises'[p] = promises[p]]_vars

\* C6 happens: a Thread started once, with one exec the worker never handled,
\* was terminated and the promise of the exec is rejected with "Terminated".
C6_Witness ==
    \E t \in ThreadIds :
        /\ threads[t].starts = 1 /\ threads[t].execs = 1 /\ threads[t].terminates = 1
        /\ threads[t].worker = Null /\ threads[t].url = Null
        /\ promises[threads[t].promise] = RejectedTerminated
        /\ \E w \in 1 .. Len(workers) :
              /\ workers[w].onmessage = t
              /\ ~workers[w].alive
              /\ workers[w].applied = <<>>
              /\ urls[workers[w].url].revoked = 1

\* the Thread t was started once, exec was called once on it, after the start,
\* and it was never terminated
SingleExec(t) ==
    /\ threads[t].starts = 1 /\ threads[t].execs = 1 /\ threads[t].terminates = 0
    /\ threads[t].worker # Null
    /\ workers[threads[t].worker].onmessage = t

\* C7: the promise of a single exec on a started Thread is settled by the one
\* response: pending until the handle has run, fulfilled with what the handle
\* returned, or rejected with the {message, stack} description of what it threw,
\* and settled once the response is delivered.
C7_SettledByResponse ==
    \A t \in ThreadIds :
        SingleExec(t) =>
            LET W == workers[threads[t].worker]
                p == promises[threads[t].promise]
            IN /\ W.applied = <<>> => p.state = "pending"
               /\ p.state = "fulfilled" => p.value = Returned(W.applied[1].args)
               /\ p.state = "rejected" => p.value = Description(Thrown(W.applied[1].args))
               /\ W.applied # <<>> /\ W.outbox = <<>> => p.state # "pending"

\* C8: exec(params) adds exactly one request {type: "exec", data: params}, with
\* data [] when params is omitted, to the requests of the worker, and the worker
\* applies the handle to exactly the arguments the caller gave.
C8_RequestCarriesParams ==
    /\ [][\A t \in ThreadIds :
            ExecCall(t) /\ threads[t].worker # Null =>
                \E params \in Params :
                    workers'[threads[t].worker].inbox =
                        Append(workers[threads[t].worker].inbox,
                               [type |-> "exec", data |-> OrParams(params),
                                call |-> params])]_vars
    /\ [](\A w \in 1 .. Len(workers) :
            \A i \in 1 .. Len(workers[w].applied) :
                workers[w].applied[i].args = OrParams(workers[w].applied[i].call).items)

\* C9: every call of a function made by threaded has a Thread of its own, started
\* once and given one exec with the arguments of the call; the Thread is
\* terminated exactly once, when the promise of the exec is settled and not
\* before; the promise returned has the outcome of the exec: the value the handle
\* returned for the arguments or the description of what it threw, never
\* "Terminated".
C9_Threaded ==
    /\ Len(threads) = Len(tcalls)
    /\ \A c \in 1 .. Len(tcalls) :
          LET t == tcalls[c].thread
              p == promises[tcalls[c].exec]
              o == promises[tcalls[c].outer]
          IN /\ \A d \in 1 .. Len(tcalls) : tcalls[d].thread = t => d = c
             /\ threads[t].starts = 1 /\ threads[t].execs = 1
             /\ threads[t].promise = tcalls[c].exec
             /\ o = p
             /\ o.value # Terminated
             /\ p.state = "pending" =>
                   /\ threads[t].terminates = 0
                   /\ threads[t].worker # Null
                   /\ workers[threads[t].worker].alive
                   /\ \A m \in 1 .. Len(workers[threads[t].worker].inbox) :
                         workers[threads[t].worker].inbox[m].data = Array(tcalls[c].args)
             /\ p.state # "pending" =>
                   /\ threads[t].terminates = 1
                   /\ threads[t].worker = Null /\ threads[t].url = Null
                   /\ \A w \in 1 .. Len(workers) :
                         workers[w].onmessage = t =>
                             ~workers[w].alive /\ urls[workers[w].url].revoked = 1
             /\ p.state = "fulfilled" => o.value = Returned(tcalls[c].args)
             /\ p.state = "rejected" => o.value = Description(Thrown(tcalls[c].args))

\* C9 happens: one call has returned the value of the handle, another has failed
\* with the description of what the handle threw, both Threads are terminated.
C9_Witness ==
    \E c, d \in 1 .. Len(tcalls) :
        /\ promises[tcalls[c].outer] =
               [state |-> "fulfilled", value |-> Returned(tcalls[c].args)]
        /\ promises[tcalls[d].outer] =
               [state |-> "rejected", value |-> Description(Thrown(tcalls[d].args))]
        /\ tcalls[d].args # <<>>
        /\ threads[tcalls[c].thread].terminates = 1
        /\ threads[tcalls[d].thread].terminates = 1

\* C10: start() on a Thread that has a worker, whether or not exec was ever
\* called on it, terminates that worker, releases its object URL and leaves the
\* Thread with a new worker, alive and without requests, and a new object URL.
C10_Restart ==
    [][\A t \in ThreadIds :
          StartCall(t) /\ threads[t].worker # Null =>
              /\ ~workers'[threads[t].worker].alive
              /\ urls'[threads[t].url].revoked = 1
              /\ threads'[t].worker \notin {Null, threads[t].worker}
              /\ threads'[t].url \notin {Null, threads[t].url}
              /\ workers'[threads'[t].worker].alive
              /\ workers'[threads'[t].worker].inbox = <<>>
              /\ urls'[threads'[t].url].revoked = 0]_vars


(***************************************************************************)
(* Properties of the List operations.                                      *)
(***************************************************************************)
ListIds == 1 .. Len(lists)

\* the promise the List operation o returned
Result(o) ==
    IF lists[o].op = "each" THEN loops[lists[o].loop].promise ELSE lists[o].promise

\* the indices the handle or condition given was invoked with, in order
VisitedIndices(o) == [i \in 1 .. Len(lists[o].visited) |-> lists[o].visited[i].index]

\* C11: List([]).each(handle) never invokes handle, and its promise is fulfilled
\* once the Loop has stopped.
C11_EmptyEach ==
    \A o \in ListIds :
        lists[o].op = "each" /\ lists[o].list = <<>> =>
            /\ lists[o].visited = <<>>
            /\ Result(o).state # "rejected"
            /\ ~HasTimer(ListHeap, lists[o].loop) => Result(o).state = "fulfilled"


\* the condition of the operation o held at its n-th invocation
Matched(o, n) == lists[o].visited[n].item \in lists[o].condition

\* C12: once the condition of a find has matched, it is invoked for no later
\* index and the Loop has no tick pending.
C12_FindShortCircuit ==
    \A o \in ListIds :
        lists[o].op = "find" =>
            \A n \in 1 .. Len(lists[o].visited) :
                Matched(o, n) =>
                    /\ n = Len(lists[o].visited)
                    /\ ~HasTimer(ListHeap, lists[o].loop)


\* the indices (from 0) of the elements of the list of o that satisfy its condition
Satisfying(o) ==
    {i \in 0 .. Len(lists[o].list) - 1 : lists[o].list[i + 1] \in lists[o].condition}

\* the lowest of a non-empty set of indices
Lowest(S) == CHOOSE i \in S : \A j \in S : i <= j

\* the Loop of o has run and has no tick pending
Stopped(o) == lists[o].visited # <<>> /\ ~HasTimer(ListHeap, lists[o].loop)

\* C13: the promise of find is fulfilled only with {item, index} of the
\* lowest-index element that satisfies the condition, and rejected only with
\* null and only if no element satisfies it; when the Loop has stopped it is
\* fulfilled if an element satisfies the condition and rejected if none does.
C13_FindResult ==
    \A o \in ListIds :
        lists[o].op = "find" =>
            /\ Result(o).state = "fulfilled" =>
                  /\ Satisfying(o) # {}
                  /\ Result(o).value =
                         Found(lists[o].list[Lowest(Satisfying(o)) + 1], Lowest(Satisfying(o)))
            /\ Result(o).state = "rejected" =>
                  Satisfying(o) = {} /\ Result(o).value = Null
            /\ Stopped(o) =>
                  Result(o).state = IF Satisfying(o) # {} THEN "fulfilled" ELSE "rejected"


\* the elements of the list of o that satisfy its condition, in the order of the list
Satisfiers(o) ==
    LET Holds(item) == item \in lists[o].condition
    IN SelectSeq(lists[o].list, Holds)

\* C14: the promise of map is fulfilled with the sequence, as long as the list,
\* of handle(list[i], i), the promise of filter with the elements that satisfy
\* the condition in the order of the list, the empty list included; both are
\* fulfilled when the Loop has stopped and never rejected.
C14_MapFilterResult ==
    \A o \in ListIds :
        /\ lists[o].op \in {"map", "filter"} =>
              /\ Result(o).state # "rejected"
              /\ Stopped(o) => Result(o).state = "fulfilled"
        /\ lists[o].op = "map" /\ Result(o).state = "fulfilled" =>
              Result(o).value =
                  [i \in 1 .. Len(lists[o].list) |-> Mapped(lists[o].list[i], i - 1)]
        /\ lists[o].op = "filter" /\ Result(o).state = "fulfilled" =>
              /\ Result(o).value = Satisfiers(o)
              /\ Len(Result(o).value) <= Len(lists[o].list)


(***************************************************************************)
(* Properties of the conditions.                                           *)
(***************************************************************************)
\* the proxies that If returned
IfProxies == {x \in 1 .. Len(proxies) : proxies[x].parent = 0}

\* the proxies that else, called on x, returned
ElseProxies(x) == {y \in 1 .. Len(proxies) : proxies[y].parent = x}

\* what condition() returned, for a proxy of If whose reaction has run
ConditionResult(x) == futures[proxies[x].promise].value

FulfilledWith(v) == [state |-> "fulfilled", value |-> v]

\* Of an If whose then() and else() were both called before the condition was
\* evaluated: on true the then-handle is invoked, once, and the else-handle
\* never; on false the else-handle, once, and the then-handle never; before the
\* evaluation neither is invoked.
OneBranch(x) ==
    /\ ~proxies[x].reacted => proxies[x].thenCalls = 0 /\ proxies[x].elseCalls = 0
    /\ proxies[x].reacted /\ proxies[x].ready /\ ConditionResult(x) = "true" =>
          /\ proxies[x].thenCalls = 1 /\ proxies[x].elseCalls = 0
          /\ proxies[x].returned \in ThenResults
    /\ proxies[x].reacted /\ proxies[x].ready /\ ConditionResult(x) = "false" =>
          /\ proxies[x].elseCalls = 1 /\ proxies[x].thenCalls = 0
          /\ proxies[x].returned \in ElseResults

\* the condition of x returned a boolean, with both handles registered before
Branched(x) ==
    /\ proxies[x].reacted /\ proxies[x].ready
    /\ ConditionResult(x) \in {"true", "false"}

\* C15 as stated: exactly the handle of the branch is invoked, once, and next
\* (the continuation) of the proxy that else returned is fulfilled with what
\* that handle returned.
C15_ContinuationOfElseProxy ==
    \A x \in IfProxies :
        /\ OneBranch(x)
        /\ Branched(x) =>
              \A y \in ElseProxies(x) :
                  futures[proxies[y].next] = FulfilledWith(proxies[x].returned)

\* C15 amended: exactly the handle of the branch is invoked, once, and the
\* promise that the proxy returned by else wraps (next of the proxy of If) is
\* fulfilled with what that handle returned.
C15_PromiseOfElseProxy ==
    \A x \in IfProxies :
        /\ OneBranch(x)
        /\ Branched(x) =>
              /\ futures[proxies[x].next] = FulfilledWith(proxies[x].returned)
              /\ \A y \in ElseProxies(x) :
                    /\ proxies[y].promise = proxies[x].next
                    /\ futures[proxies[y].promise] = FulfilledWith(proxies[x].returned)

\* C15 happens: If(() => true).then(() => 'A').else(...) has invoked the
\* then-handle and the promise of the proxy else returned is fulfilled with 'A'.
C15_Witness ==
    \E x \in IfProxies :
        /\ Branched(x)
        /\ ConditionResult(x) = "true"
        /\ proxies[x].thenCalls = 1
        /\ proxies[x].returned = "'A'"
        /\ \E y \in ElseProxies(x) : futures[proxies[y].promise] = FulfilledWith("'A'")


(***************************************************************************)
(* Properties of the Loop engine: ticks.                                   *)
(***************************************************************************)
\* C16: once the promise of a Loop is settled, whoever settled it, the handle
\* is not invoked again and no tick is scheduled for the Loop.
C16_NoTickAfterSettled ==
    [][\A l \in LoopIds :
          loops[l].promise.state # "pending" =>
              /\ loops'[l].calls = loops[l].calls
              /\ loops'[l].nTimers = loops[l].nTimers]_vars

\* the Loops started under the identifier id that have a tick pending
Live(id) ==
    {l \in LoopIds : loops[l].via = "unique" /\ loops[l].id = id /\ HasTimer(Heap, l)}

\* the Loops started under the identifier id
Under(id) == {l \in LoopIds : loops[l].via = "unique" /\ loops[l].id = id}

\* C17: at most one Loop started under an identifier has a tick pending, and
\* the registry maps the identifier to the Loop started under it last.
C17_OneLivePerId ==
    \A id \in Ids :
        /\ Cardinality(Live(id)) <= 1
        /\ Under(id) = {} => loopMap[id] = 0
        /\ Under(id) # {} =>
              /\ loopMap[id] \in Under(id)
              /\ \A l \in Under(id) : l <= loopMap[id]

\* C19: a tick in which the handle throws leaves the promise as it was and the
\* Loop without a pending tick, whatever maxIterations is; afterwards the handle
\* is not invoked again, no tick is scheduled and nothing the Loop does settles
\* the promise: it changes only by a call made outside the Loop's handle, on
\* the instance or, for a unique Loop, through the registry.
C19_ThrowStopsLoop ==
    [][\A l \in LoopIds :
          /\ ~loops[l].threw /\ loops'[l].threw =>
                /\ loops'[l].promise = loops[l].promise
                /\ TimersOf(timers', l) = {}
          /\ loops[l].threw =>
                /\ loops'[l].calls = loops[l].calls
                /\ loops'[l].nTimers = loops[l].nTimers
                /\ TimersOf(timers', l) = {}
                /\ loops'[l].promise # loops[l].promise =>
                      loops'[l].settledBy.from \in {"outside", "superseded"}]_vars

\* C19 happens: the handle of a Loop with a cap threw at the tick that reaches
\* the cap: the promise is pending and no tick is pending.
C19_Witness ==
    \E l \in LoopIds :
        /\ loops[l].threw
        /\ TruthyNum(loops[l].maxIterations)
        /\ loops[l].calls = loops[l].maxIterations
        /\ loops[l].promise.state = "pending"
        /\ ~HasTimer(Heap, l)


(***************************************************************************)
(* Properties of the scheduling of ticks.                                  *)
(***************************************************************************)
\* the List operation, if any, that runs on Loop l
OperationsOn(l) == {o \in ListIds : lists[o].loop = l}

\* Loop l is between two consecutive ticks: its handle has been invoked and its
\* next tick is pending
BetweenTicks(l) == loops[l].calls >= 1 /\ HasTimer(Heap, l)

\* the step is one tick of Loop l: the one pending timer of l fires, the handle
\* is invoked once, at most one timer of l is pending afterwards, a List
\* operation on l visits the one index after the last one, and the timers and
\* invocation counts of the other Loops stay as they are
OneTick(l) ==
    /\ Cardinality(TimersOf(timers, l)) = 1
    /\ TimersOf(timers, l) \cap timers' = {}
    /\ loops'[l].calls = loops[l].calls + 1
    /\ Cardinality(TimersOf(timers', l)) <= 1
    /\ \A o \in OperationsOn(l) :
          /\ Len(lists'[o].visited) = Len(lists[o].visited) + 1
          /\ SubSeq(lists'[o].visited, 1, Len(lists[o].visited)) = lists[o].visited
          /\ lists'[o].visited[Len(lists'[o].visited)].index = Len(lists[o].visited)
    /\ \A k \in LoopIds \ {l} :
          /\ loops'[k].calls = loops[k].calls
          /\ TimersOf(timers', k) = TimersOf(timers, k)

\* the step invokes no handle: what was invoked and visited stays as it is, no
\* pending tick goes away, and a Loop it starts (by start or by each, map,
\* filter and find) has one pending tick and no invocation
NoTick ==
    /\ \A k \in LoopIds : loops'[k].calls = loops[k].calls
    /\ \A o \in ListIds : lists'[o].visited = lists[o].visited
    /\ timers \subseteq timers'
    /\ \A k \in 1 .. Len(loops') :
          (k \notin LoopIds \/ loops'[k].starts # loops[k].starts) =>
              /\ loops'[k].calls = 0
              /\ loops'[k].starts = 1 => Cardinality(TimersOf(timers', k)) = 1
    /\ \A o \in (1 .. Len(lists')) \ ListIds : lists'[o].visited = <<>>

\* C18: a Loop never has more than one pending tick; every step is either one
\* tick of one Loop, which invokes its handle once and schedules at most one
\* successor, or a call that invokes no handle (start among them); a List
\* operation has visited the indices 0, 1, 2, ... in this order, one per
\* invocation; and a tick of one Loop leaves the pending ticks of the other
\* Loops pending, so that they run between its ticks.
C18_OneTickAtATime ==
    /\ [](\A l \in LoopIds : Cardinality(TimersOf(timers, l)) <= 1)
    /\ [](\A o \in ListIds :
             /\ Len(lists[o].visited) = loops[lists[o].loop].calls
             /\ VisitedIndices(o) = [i \in 1 .. Len(lists[o].visited) |-> i - 1])
    /\ [][NoTick \/ \E l \in LoopIds : OneTick(l)]_vars

\* C18 happens: a Loop made with new and a List operation have both had their
\* first tick and both have their second tick pending: the first tick of the
\* one that ticked last ran between the first and the second tick of the other.
C18_Witness ==
    \E l \in LoopIds, o \in ListIds :
        /\ loops[l].via = "new"
        /\ BetweenTicks(l)
        /\ BetweenTicks(lists[o].loop)
        /\ VisitedIndices(o) = <<0>>


(***************************************************************************)
(* Properties of the Threads: a second exec.                               *)
(***************************************************************************)
\* exec was called twice on the Thread t, started once and never terminated,
\* both times after the start, and the promise of the first exec was pending
\* when the second exec replaced it: no response had arrived
SecondExec(t) ==
    /\ threads[t].starts = 1 /\ threads[t].execs = 2 /\ threads[t].terminates = 0
    /\ threads[t].worker # Null
    /\ Len(workers[threads[t].worker].applied) + Len(workers[threads[t].worker].inbox) = 2
    /\ threads[t].previous # Null
    /\ promises[threads[t].previous].state = "pending"

\* a step in which the oldest response of the worker w arrives
Arrives(w) ==
    /\ workers'[w].alive
    /\ workers[w].outbox # <<>>
    /\ workers'[w].outbox = Tail(workers[w].outbox)

\* the promise a response settles
SettledWith(msg) ==
    [state |-> IF msg.type = "result" THEN "fulfilled" ELSE "rejected", value |-> msg.data]

\* C20: after a second exec on a started Thread, called before the response to
\* the first has arrived, no step settles the promise of the first exec, and the
\* first response to arrive settles the promise of the second exec and is the
\* response to the first request.
C20_SecondExec ==
    /\ [][\A t \in ThreadIds :
            SecondExec(t) =>
                promises'[threads[t].previous] = promises[threads[t].previous]]_vars
    /\ [][\A t \in ThreadIds :
            /\ SecondExec(t)
            /\ promises[threads[t].promise].state = "pending"
            /\ Arrives(threads[t].worker)
            => LET msg == Head(workers[threads[t].worker].outbox)
               IN /\ promises'[threads[t].promise] = SettledWith(msg)
                  /\ msg.request = 1]_vars

====
